---- MODULE Spec2Model ----
(***************************************************************************)
(* Model of the AutoWriter model router                                    *)
(* (novel_system/backend/services/model_router.py): the registry, the     *)
(* task and strategy tables, select_models, invoke_model and the           *)
(* generate_text orchestration loop in its compare and standard modes.     *)
(* One provider call is one step; the provider's answer (a text or an      *)
(* exception with a message) is chosen nondeterministically.               *)
(*                                                                         *)
(* Spec        one generate_text call                                      *)
(* SelectSpec  one select_models call on arguments drawn by its Init       *)
(* ChunkSpec   one VectorStore.chunk_text call                             *)
(*             (novel_system/backend/services/vector_store.py), one loop   *)
(*             iteration per step                                          *)
(* StoreSpec   one caller of VectorStore.upsert_embedding, call after      *)
(*             call, over one Redis; one Redis command per step            *)
(* QuerySpec   one upsert_embedding call while a reader runs               *)
(*             query_similar                                               *)
(* RaceSpec    two callers of upsert_embedding at the same time            *)
(* ServiceSpec one caller of AutoWriterService (autowriter/services.py)    *)
(*             over FileStorage; one file read or write per step           *)
(* ServiceRaceSpec  two callers of AutoWriterService on one project        *)
(***************************************************************************)
EXTENDS Integers, Sequences, FiniteSets, TLC

VARIABLES
    pc,          \* position of the generate_text call
    req,         \* the arguments of the call in progress
    candidates,  \* standard mode: the candidate list (line 263-266)
    idx,         \* 1-based index of the loop iteration about to run
    last_err,    \* standard mode: last_err (line 268)
    exc,         \* compare mode: the exception bound at line 243
    results,     \* compare mode: the results list (line 230)
    ret,         \* the value returned, or the exception raised, to the caller
    calls,       \* log of the invoke_model calls made by this generate_text
    sel_pc,      \* select_models: "off", "call" or "done"
    sel_args,    \* select_models: its arguments
    sel_out,     \* select_models: the list it returned
    ck_pc,       \* chunk_text: "off", "call", "loop" or "done"
    ck_text,     \* chunk_text: text
    chunk_size,  \* chunk_text: chunk_size
    overlap,     \* chunk_text: overlap
    start,       \* chunk_text: start
    chunks,      \* chunk_text: chunks
    unlisted,    \* chunk_text: windows appended that `chunks` no longer lists
    docs,        \* Redis: the hashes stored under the "chunk:" prefix
    index_exists,\* Redis: the search index idx_novel_chunks exists
    active,      \* the callers that run upsert_embedding
    budget,      \* upsert_embedding calls still to be started
    up_pc,       \* upsert_embedding, per caller: position of the call
    up_args,     \* upsert_embedding, per caller: its arguments
    up_keys,     \* delete_chunks, per caller: keys (line 80)
    up_ret,      \* upsert_embedding, per caller: how the last call ended
    up_embedded, \* per caller: the call has called the embedding provider
    up_before,   \* per caller: the hashes stored when the call started
    up_prev,     \* per caller: arguments, start and end of the call before
    qs_pc,       \* query_similar: position of the call
    qs_args,     \* query_similar: its arguments
    qs_ret,      \* query_similar: the list returned
    qs_embedded, \* query_similar: the call has called the embedding provider
    qs_view,     \* the hashes stored when the search ran
    qs_mid,      \* the upsert_embedding calls under way when the search ran
    qs_after,    \* the callers whose call had returned when the query was made
    qs_reply,    \* the documents of the engine's reply, res.docs (line 126)
    files,       \* FileStorage: projects/<id>.json, by project id
    uuid_next,   \* models._uuid: the next identifier
    clock,       \* models._now: the next timestamp
    workers,     \* the callers of AutoWriterService
    ops_left,    \* AutoWriterService calls still to be started
    sv_pc,       \* AutoWriterService, per caller: position of the call
    sv_op,       \* AutoWriterService, per caller: the call and its arguments
    project,     \* AutoWriterService, per caller: `project` (lines 39, 47, ...)
    sv_ret,      \* AutoWriterService, per caller: how the last call ended
    created,     \* the projects create_project has returned
    added,       \* the entities the add operations have returned
    written      \* per chapter id, the content last written to it

routerVars == <<pc, req, candidates, idx, last_err, exc, results, ret, calls>>

selectVars == <<sel_pc, sel_args, sel_out>>

chunkVars == <<ck_pc, ck_text, chunk_size, overlap, start, chunks, unlisted>>

storeVars == <<docs, index_exists, active, budget, up_pc, up_args, up_keys,
               up_ret, up_embedded, up_before, up_prev>>

queryVars == <<qs_pc, qs_args, qs_ret, qs_embedded, qs_view, qs_mid, qs_after, qs_reply>>

projVars == <<files, uuid_next, clock, workers, ops_left, sv_pc, sv_op, project,
              sv_ret, created, added, written>>

vars == <<routerVars, selectVars, chunkVars, storeVars, queryVars, projVars>>

----------------------------------------------------------------------------
(* Bounds of the model *)

\* longest preferred_models / compare_models list a caller passes
MaxList == 2

\* Python's None
NONE == "<None>"

\* the designated primary fallback model (literal at lines 244, 247, 288)
PRIMARY == "gpt-5.1"

\* strings a provider can answer with, as a text or as an exception message
Strings == {"", "a"}

\* model names callers put in preferred_models / compare_models ("x" is
\* not registered)
InputNames == {"gpt-5.1", "gpt-5-mini", "grok-4.1", "x"}

\* values of the model= override ("" and None are both falsy)
InputModels == {NONE, "gpt-5.1", "grok-2-mini", "x"}

\* task and strategy labels callers pass
InputTasks == {NONE, "short", "chapter", "dialogue", "nosuch"}

InputStrategies == {NONE, "creative", "nosuch"}

----------------------------------------------------------------------------
(* The registry and the default tables *)

MODEL_REGISTRY ==
    {"gpt-5.1", "gpt-5-mini", "gemini-3.0-pro", "gemini-1.5-flash",
     "grok-4.1", "grok-2-mini"}

Provider(m) ==
    CASE m \in {"gpt-5.1", "gpt-5-mini"} -> "openai"
      [] m \in {"gemini-3.0-pro", "gemini-1.5-flash"} -> "gemini"
      [] m \in {"grok-4.1", "grok-2-mini"} -> "grok"
      [] OTHER -> NONE

\* TASK_DEFAULTS.get(task, [])
TaskDefaults(task) ==
    CASE task = "outline" -> <<"gpt-5-mini", "gpt-5.1", "gemini-3.0-pro">>
      [] task = "short" -> <<"gpt-5-mini", "gemini-1.5-flash", "gpt-5.1">>
      [] task = "draft" -> <<"gpt-5-mini", "gpt-5.1", "gemini-3.0-pro">>
      [] task = "chapter" -> <<"gpt-5.1", "gemini-3.0-pro">>
      [] task = "rewrite" -> <<"gpt-5.1", "grok-4.1">>
      [] task = "polish" -> <<"gpt-5.1", "grok-4.1">>
      [] task = "quality" -> <<"gpt-5.1", "gemini-3.0-pro">>
      [] task = "world" -> <<"gemini-3.0-pro", "gpt-5.1">>
      [] task = "lore" -> <<"gemini-3.0-pro", "gpt-5.1">>
      [] task = "dialogue" -> <<"grok-4.1", "gpt-5.1">>
      [] task = "emotional" -> <<"grok-4.1", "gpt-5.1">>
      [] task = "chat" -> <<"gpt-5-mini", "gpt-5.1", "grok-4.1">>
      [] OTHER -> <<>>

\* STRATEGY_PRESETS.get(strategy, [])
StrategyPresets(strategy) ==
    CASE strategy = "default" -> <<"gpt-5-mini", "gpt-5.1">>
      [] strategy = "creative" -> <<"grok-4.1", "gpt-5.1">>
      [] strategy = "grok" -> <<"grok-4.1", "gpt-5.1">>
      [] strategy = "gemini" -> <<"gemini-3.0-pro", "gpt-5.1", "gpt-5-mini">>
      [] strategy = "long_context" -> <<"gemini-3.0-pro", "gpt-5.1">>
      [] strategy = "cheap" -> <<"gpt-5-mini", "gemini-1.5-flash", "gpt-5.1">>
      [] OTHER -> <<>>

----------------------------------------------------------------------------
(* Pure helpers *)

Range(s) == {s[i] : i \in 1..Len(s)}

\* Python truthiness of an optional string: None and "" are falsy
Truthy(s) == s # NONE /\ s # ""

\* `s or d`
OrElse(s, d) == IF Truthy(s) THEN s ELSE d

\* [m for m in seq if m in MODEL_REGISTRY]
RECURSIVE Registered(_)
Registered(seq) ==
    IF seq = <<>> THEN <<>>
    ELSE IF Head(seq) \in MODEL_REGISTRY
         THEN <<Head(seq)>> \o Registered(Tail(seq))
         ELSE Registered(Tail(seq))

RECURSIVE UniqueFrom(_, _, _)
UniqueFrom(seq, seen, out) ==
    IF seq = <<>> THEN out
    ELSE IF Head(seq) \notin seen /\ Head(seq) \in MODEL_REGISTRY
         THEN UniqueFrom(Tail(seq), seen \cup {Head(seq)}, Append(out, Head(seq)))
         ELSE UniqueFrom(Tail(seq), seen, out)

\* _unique
Unique(seq) == UniqueFrom(seq, {}, <<>>)

\* variant: an empty filtered preferred_models falls back to the default
\* strategy list
select_models_PreferredOrDefault(task, strategy, preferred_models) ==
    LET strat == StrategyPresets(OrElse(strategy, "default"))
        models == Unique(TaskDefaults(OrElse(task, "")) \o strat)
    IN  IF preferred_models # <<>>
        THEN IF Registered(preferred_models) # <<>>
             THEN Registered(preferred_models)
             ELSE StrategyPresets("default")
        ELSE IF models # <<>> THEN models ELSE StrategyPresets("default")

\* variant: line 136 without `or STRATEGY_PRESETS["default"]`
select_models_NoDefault(task, strategy, preferred_models) ==
    IF preferred_models # <<>>
    THEN Registered(preferred_models)
    ELSE Unique(TaskDefaults(OrElse(task, ""))
                  \o StrategyPresets(OrElse(strategy, "default")))

\* variant: preferred_models goes through _unique
select_models_DedupPreferred(task, strategy, preferred_models) ==
    LET strat == StrategyPresets(OrElse(strategy, "default"))
        models == Unique(TaskDefaults(OrElse(task, "")) \o strat)
    IN  IF preferred_models # <<>>
        THEN Unique(preferred_models)
        ELSE IF models # <<>> THEN models ELSE StrategyPresets("default")

\* variant: the strategy list comes before the task list
select_models_StrategyFirst(task, strategy, preferred_models) ==
    LET strat == StrategyPresets(OrElse(strategy, "default"))
        models == Unique(strat \o TaskDefaults(OrElse(task, "")))
    IN  IF preferred_models # <<>>
        THEN Registered(preferred_models)
        ELSE IF models # <<>> THEN models ELSE StrategyPresets("default")

\* lines 120-136
select_models(task, strategy, preferred_models) ==
    IF preferred_models # <<>>
    THEN Registered(preferred_models)
    ELSE LET strat == StrategyPresets(OrElse(strategy, "default"))
             base0 == TaskDefaults(OrElse(task, "")) \o strat
             base  == IF task = "short" THEN TaskDefaults("short") \o strat
                      ELSE base0
             models == Unique(base)
         IN  IF models # <<>> THEN models ELSE StrategyPresets("default")

\* variant: the override is appended instead of prepended
Candidates_Appended(r) ==
    LET sel == select_models(r.task, r.strategy, r.preferred_models)
    IN  IF Truthy(r.model) THEN Unique(sel \o <<r.model>>) ELSE sel

\* candidates of the standard mode (lines 263-266)
Candidates(r) ==
    LET sel == select_models(r.task, r.strategy, r.preferred_models)
    IN  IF Truthy(r.model) THEN Unique(<<r.model>> \o sel) ELSE sel

----------------------------------------------------------------------------
(* invoke_model *)

\* the value invoke_model returns (lines 163-168, 178-183, 193-198)
InvokeResult(m, text) ==
    [text |-> text, model_used |-> m, provider |-> Provider(m),
     from_fallback |-> FALSE]

\* an exception object; `at` is the number of the invoke_model call that
\* raised it and stands for the object's identity
Exc(type, msg, m, n) == [type |-> type, msg |-> msg, model |-> m, at |-> n]

\* str(exc)
Str(e) == e.msg

\* "no exception": the value of last_err and exc before any failure
NoErr == [type |-> "None"]

\* "no result": what a failed invoke_model call returns
NoRes == [text |-> NONE]

\* every way the n-th invoke_model call, on model m, can end (lines 149-200)
InvokeOutcomes(m, n) ==
    IF m \notin MODEL_REGISTRY
    THEN {[ok |-> FALSE, res |-> NoRes,
           exc |-> Exc("ModelUnavailable", "Unknown model: " \o m, m, n)]}
    ELSE IF Provider(m) \in {"openai", "gemini", "grok"}
    THEN {[ok |-> TRUE, res |-> InvokeResult(m, t), exc |-> NoErr] : t \in Strings}
         \cup
         {[ok |-> FALSE, res |-> NoRes, exc |-> Exc("ProviderError", s, m, n)] :
            s \in Strings}
    ELSE {[ok |-> FALSE, res |-> NoRes,
           exc |-> Exc("ModelUnavailable", "Provider not implemented", m, n)]}

\* one entry of the call log
Logged(m, o, slot, fb) ==
    [model |-> m, ok |-> o.ok,
     out |-> IF o.ok THEN o.res.text ELSE Str(o.exc),
     slot |-> slot, fallback |-> fb]

----------------------------------------------------------------------------
(* generate_text: the decisions of the two loops *)

\* `res if return_meta else res["text"]` (lines 242, 256, 280-282)
Entry(res, return_meta) == IF return_meta THEN res ELSE res.text

\* line 260
ErrorEntry(e, m, return_meta) ==
    IF return_meta THEN [error |-> Str(e), model_used |-> m] ELSE Str(e)

\* variant: a failed slot leaves no entry
RecordFailure_Dropped(res, e, m, return_meta) == res

\* line 260: the slot's error entry is appended to results
RecordFailure(res, e, m, return_meta) ==
    Append(res, ErrorEntry(e, m, return_meta))

\* variant: the fallback's exception shadows the requested model's
SlotError_OfFallback(own_exc, fb_exc) == fb_exc

\* lines 258-260: after the fallback failed with fb_exc, line 260 still
\* reads the exc bound at line 243, the requested model's own failure
SlotError(own_exc, fb_exc) == own_exc

\* variant: only the first failure is kept
RecordError_KeepsFirst(last, e) == IF last = [type |-> "None"] THEN e ELSE last

\* line 284
RecordError(last, e) == e

\* variant: the fallback is tried for a failed gpt-5.1 too
NeedsFallback_AlsoPrimary(allow_fallback, m) == allow_fallback

\* line 244
NeedsFallback(allow_fallback, m) == allow_fallback /\ m # PRIMARY

\* variant: the fallback result is not marked
MarkFallback_Unmarked(fb) == fb

\* line 255
MarkFallback(fb) == [fb EXCEPT !.from_fallback = TRUE]

\* variant: allow_fallback is ignored
AfterFailure_AlwaysNext(allow_fallback, m, i, cands) == "next"

\* variant: the loop is left after any failure
AfterFailure_AlwaysBreak(allow_fallback, m, i, cands) == "break"

\* variant: the loop goes on only while gpt-5.1 is still ahead
AfterFailure_NeedsPrimaryAhead(allow_fallback, m, i, cands) ==
    IF ~allow_fallback THEN "break"
    ELSE IF m # PRIMARY /\ PRIMARY \in Range(SubSeq(cands, i + 1, Len(cands)))
         THEN "next"
         ELSE "break"

\* lines 285-289: what the standard loop does after candidate m, at position
\* i of cands, failed.  Line 288's `continue` and the end of the except
\* block both lead to the next iteration.
AfterFailure(allow_fallback, m, i, cands) ==
    IF ~allow_fallback THEN "break"
    ELSE IF m # PRIMARY /\ PRIMARY \in Range(SubSeq(cands, i + 1, Len(cands)))
         THEN "next"
         ELSE "next"

\* variant: last_err is raised without the test of line 290
Raised_NoGuard(err) == err

\* lines 290-292
Raised(err) ==
    IF err # NoErr THEN err
    ELSE Exc("ModelUnavailable", "No model available to fulfill the request",
             NONE, 0)

----------------------------------------------------------------------------
(* The requests callers make *)

RECURSIVE SeqsUpTo(_, _)
SeqsUpTo(S, n) ==
    IF n = 0 THEN {<<>>}
    ELSE LET shorter == SeqsUpTo(S, n - 1)
         IN  shorter \cup {Append(s, x) : s \in shorter, x \in S}

InputLists == SeqsUpTo(InputNames, MaxList)

\* compare mode reads none of task, strategy, preferred_models, model
CompareRequests ==
    {[task |-> NONE, strategy |-> NONE, preferred_models |-> <<>>,
      compare_models |-> c, allow_fallback |-> a, model |-> NONE,
      return_meta |-> rm] :
        c \in InputLists \ {<<>>}, a \in BOOLEAN, rm \in BOOLEAN}

StandardRequests ==
    {[task |-> t, strategy |-> s, preferred_models |-> p,
      compare_models |-> <<>>, allow_fallback |-> a, model |-> mo,
      return_meta |-> rm] :
        t \in InputTasks, s \in InputStrategies, p \in InputLists,
        a \in BOOLEAN, mo \in InputModels, rm \in BOOLEAN}

\* the argument record before any call: every argument at its default
NoRequest ==
    [task |-> NONE, strategy |-> NONE, preferred_models |-> <<>>,
     compare_models |-> <<>>, allow_fallback |-> TRUE, model |-> NONE,
     return_meta |-> FALSE]

\* what the caller gets: nothing yet, a returned value, a raised exception
Pending == [kind |-> "pending"]

Returns(v) == [kind |-> "return", value |-> v]

Raises(e) == [kind |-> "raise", exc |-> e]

----------------------------------------------------------------------------
\* no select_models call is modelled
SelectOff ==
    /\ sel_pc = "off"
    /\ sel_args = [task |-> NONE, strategy |-> NONE, preferred_models |-> <<>>]
    /\ sel_out = <<>>

\* the callers of upsert_embedding
Writers == {"w1", "w2"}

\* the arguments before any call
NoUpsert == [project_id |-> 0, ref_type |-> "", ref_id |-> 0, content |-> <<>>]

NoQuery == [project_id |-> 0, query |-> <<>>, top_k |-> 0]

\* no call before this one
NoPrev == [ret |-> "none"]

\* no upsert_embedding or query_similar call under way
CallersIdle ==
    /\ up_pc = [w \in Writers |-> "idle"]
    /\ up_args = [w \in Writers |-> NoUpsert]
    /\ up_keys = [w \in Writers |-> {}]
    /\ up_ret = [w \in Writers |-> "none"]
    /\ up_embedded = [w \in Writers |-> FALSE]
    /\ up_before = [w \in Writers |-> {}]
    /\ up_prev = [w \in Writers |-> NoPrev]
    /\ qs_pc = "idle"
    /\ qs_args = NoQuery
    /\ qs_ret = <<>>
    /\ qs_embedded = FALSE
    /\ qs_view = {}
    /\ qs_mid = {}
    /\ qs_after = {}
    /\ qs_reply = <<>>

\* no upsert_embedding or query_similar call is modelled
StoreOff ==
    /\ docs = {}
    /\ index_exists = FALSE
    /\ CallersIdle
    /\ active = {}
    /\ budget = 0

\* the callers of AutoWriterService
Workers == {"s1", "s2"}

\* no call: the value of sv_op, project and sv_ret before any call
NoOp == [op |-> "none"]

\* no project file, no AutoWriterService call under way
ServiceIdle ==
    /\ sv_pc = [w \in Workers |-> "idle"]
    /\ sv_op = [w \in Workers |-> NoOp]
    /\ project = [w \in Workers |-> NoOp]
    /\ sv_ret = [w \in Workers |-> NoOp]
    /\ added = {}

\* no AutoWriterService call is modelled
ProjOff ==
    /\ files = <<>>
    /\ uuid_next = 1
    /\ clock = 1
    /\ workers = {}
    /\ ops_left = 0
    /\ ServiceIdle
    /\ created = <<>>
    /\ written = <<>>

\* no chunk_text call is modelled
ChunkOff ==
    /\ ck_pc = "off"
    /\ ck_text = <<>>
    /\ chunk_size = 1
    /\ overlap = 0
    /\ start = 0
    /\ chunks = <<>>
    /\ unlisted = 0

\* no generate_text call has been made
RouterIdle ==
    /\ pc = "idle"
    /\ req = NoRequest
    /\ candidates = <<>>
    /\ idx = 1
    /\ last_err = NoErr
    /\ exc = NoErr
    /\ results = <<>>
    /\ ret = Pending
    /\ calls = <<>>

Init == RouterIdle /\ SelectOff /\ ChunkOff /\ StoreOff /\ ProjOff

\* generate_text is entered (lines 229-230 or 263-268)
GenerateText(r) ==
    /\ pc = "idle"
    /\ req' = r
    /\ pc' = IF r.compare_models # <<>> THEN "compare" ELSE "standard"
    /\ candidates' = IF r.compare_models # <<>> THEN <<>> ELSE Candidates(r)
    /\ idx' = 1
    /\ last_err' = NoErr
    /\ results' = <<>>
    /\ UNCHANGED <<exc, ret, calls>>
    /\ UNCHANGED <<selectVars, chunkVars, storeVars, queryVars, projVars>>

\* compare mode, lines 231-242: the requested model answers
CmpInvokeOk ==
    /\ pc = "compare"
    /\ idx <= Len(req.compare_models)
    /\ LET m == req.compare_models[idx]
       IN  \E o \in InvokeOutcomes(m, Len(calls) + 1) :
             /\ o.ok
             /\ calls' = Append(calls, Logged(m, o, idx, FALSE))
             /\ results' = Append(results, Entry(o.res, req.return_meta))
             /\ idx' = idx + 1
    /\ UNCHANGED <<pc, req, candidates, last_err, exc, ret>>
    /\ UNCHANGED <<selectVars, chunkVars, storeVars, queryVars, projVars>>

\* compare mode, lines 243-244 and 260: the requested model fails
CmpInvokeFail ==
    /\ pc = "compare"
    /\ idx <= Len(req.compare_models)
    /\ LET m == req.compare_models[idx]
       IN  \E o \in InvokeOutcomes(m, Len(calls) + 1) :
             /\ ~o.ok
             /\ calls' = Append(calls, Logged(m, o, idx, FALSE))
             /\ IF NeedsFallback(req.allow_fallback, m)
                THEN /\ pc' = "compare_fb"
                     /\ exc' = o.exc
                     /\ UNCHANGED <<results, idx>>
                ELSE /\ results' =
                          RecordFailure(results, o.exc, m, req.return_meta)
                     /\ idx' = idx + 1
                     /\ UNCHANGED <<pc, exc>>
    /\ UNCHANGED <<req, candidates, last_err, ret>>
    /\ UNCHANGED <<selectVars, chunkVars, storeVars, queryVars, projVars>>

\* compare mode, lines 245-257: the fallback model answers
CmpFallbackOk ==
    /\ pc = "compare_fb"
    /\ \E o \in InvokeOutcomes(PRIMARY, Len(calls) + 1) :
         /\ o.ok
         /\ calls' = Append(calls, Logged(PRIMARY, o, idx, TRUE))
         /\ results' = Append(results, Entry(MarkFallback(o.res), req.return_meta))
    /\ idx' = idx + 1
    /\ pc' = "compare"
    /\ UNCHANGED <<req, candidates, last_err, exc, ret>>
    /\ UNCHANGED <<selectVars, chunkVars, storeVars, queryVars, projVars>>

\* compare mode, lines 258-260: the fallback model fails too
CmpFallbackFail ==
    /\ pc = "compare_fb"
    /\ \E o \in InvokeOutcomes(PRIMARY, Len(calls) + 1) :
         /\ ~o.ok
         /\ calls' = Append(calls, Logged(PRIMARY, o, idx, TRUE))
         /\ results' = RecordFailure(results, SlotError(exc, o.exc),
                                     req.compare_models[idx], req.return_meta)
    /\ idx' = idx + 1
    /\ pc' = "compare"
    /\ UNCHANGED <<req, candidates, last_err, exc, ret>>
    /\ UNCHANGED <<selectVars, chunkVars, storeVars, queryVars, projVars>>

\* compare mode, line 261
CmpReturn ==
    /\ pc = "compare"
    /\ idx > Len(req.compare_models)
    /\ ret' = Returns(results)
    /\ pc' = "returned"
    /\ UNCHANGED <<req, candidates, idx, last_err, exc, results, calls>>
    /\ UNCHANGED <<selectVars, chunkVars, storeVars, queryVars, projVars>>

\* standard mode, lines 269-282: the candidate answers
StdInvokeOk ==
    /\ pc = "standard"
    /\ idx <= Len(candidates)
    /\ LET m == candidates[idx]
       IN  \E o \in InvokeOutcomes(m, Len(calls) + 1) :
             /\ o.ok
             /\ calls' = Append(calls, Logged(m, o, idx, FALSE))
             /\ ret' = Returns(Entry(o.res, req.return_meta))
    /\ pc' = "returned"
    /\ UNCHANGED <<req, candidates, idx, last_err, exc, results>>
    /\ UNCHANGED <<selectVars, chunkVars, storeVars, queryVars, projVars>>

\* standard mode, lines 283-289: the candidate fails
StdInvokeFail ==
    /\ pc = "standard"
    /\ idx <= Len(candidates)
    /\ LET m == candidates[idx]
       IN  /\ \E o \in InvokeOutcomes(m, Len(calls) + 1) :
                /\ ~o.ok
                /\ calls' = Append(calls, Logged(m, o, idx, FALSE))
                /\ last_err' = RecordError(last_err, o.exc)
           /\ IF AfterFailure(req.allow_fallback, m, idx, candidates) = "break"
              THEN pc' = "std_end" /\ idx' = idx
              ELSE pc' = pc /\ idx' = idx + 1
    /\ UNCHANGED <<req, candidates, exc, results, ret>>
    /\ UNCHANGED <<selectVars, chunkVars, storeVars, queryVars, projVars>>

\* standard mode, lines 290-292: the loop is left without a result
StdRaise ==
    /\ \/ pc = "std_end"
       \/ pc = "standard" /\ idx > Len(candidates)
    /\ ret' = Raises(Raised(last_err))
    /\ pc' = "raised"
    /\ UNCHANGED <<req, candidates, idx, last_err, exc, results, calls>>
    /\ UNCHANGED <<selectVars, chunkVars, storeVars, queryVars, projVars>>

Next ==
    \/ pc = "idle" /\ \E r \in StandardRequests \cup CompareRequests : GenerateText(r)
    \/ CmpInvokeOk
    \/ CmpInvokeFail
    \/ CmpFallbackOk
    \/ CmpFallbackFail
    \/ CmpReturn
    \/ StdInvokeOk
    \/ StdInvokeFail
    \/ StdRaise

Spec == Init /\ [][Next]_vars

----------------------------------------------------------------------------
(* select_models on its own *)

\* the task labels of TASK_DEFAULTS and the strategy labels of
\* STRATEGY_PRESETS
KnownTasks ==
    {"outline", "short", "draft", "chapter", "rewrite", "polish", "quality",
     "world", "lore", "dialogue", "emotional", "chat"}

KnownStrategies ==
    {"default", "creative", "grok", "gemini", "long_context", "cheap"}

\* the arguments select_models is called with: every known label, unset
\* (None and ""), and a label that is in no table
SelectArgs ==
    [task : KnownTasks \cup {NONE, "", "nosuch"},
     strategy : KnownStrategies \cup {NONE, "", "nosuch"},
     preferred_models : InputLists]

SelectInit ==
    /\ RouterIdle
    /\ ChunkOff
    /\ StoreOff
    /\ ProjOff
    /\ sel_pc = "call"
    /\ sel_args \in SelectArgs
    /\ sel_out = <<>>

\* select_models runs (lines 120-136)
SelectCall ==
    /\ sel_pc = "call"
    /\ sel_out' = select_models(sel_args.task, sel_args.strategy,
                                sel_args.preferred_models)
    /\ sel_pc' = "done"
    /\ UNCHANGED <<sel_args, routerVars, chunkVars, storeVars, queryVars, projVars>>

SelectNext == SelectCall

SelectSpec == SelectInit /\ [][SelectNext]_vars

----------------------------------------------------------------------------
(* VectorStore.chunk_text (vector_store.py lines 62-75) *)

\* longest text, over Alphabet, that chunk_text is called with
MaxText == 4

\* largest chunk_size
MaxChunk == 4

Alphabet == {"a", "b"}

\* the text of the documented example: "abcdefghij"
ExampleText == <<"a", "b", "c", "d", "e", "f", "g", "h", "i", "j">>

ChunkTexts == SeqsUpTo(Alphabet, MaxText) \cup {ExampleText}

\* the windows kept in the model's `chunks`; more than any call that ends
\* produces on these texts
MaxWindows == Len(ExampleText) + MaxText

Min(a, b) == IF a <= b THEN a ELSE b

\* line 70
WindowEnd(s, size, text_len) == Min(s + size, text_len)

\* text[start:end] for 0 <= start and end <= len(text)
Slice(text, s, e) == SubSeq(text, s + 1, e)

\* line 71; the loop goes on past MaxWindows windows, which the model does
\* not list any further
Appended(list, w) == IF Len(list) < MaxWindows THEN Append(list, w) ELSE list

\* line 71 on a full list: the windows not listed are counted 1, 2, 1, 2, ...
Unlisted(list, n) ==
    IF Len(list) < MaxWindows THEN n ELSE IF n = 1 THEN 2 ELSE 1

\* variant: the loop is left only by its while condition
LoopEnds_Never(e, text_len) == FALSE

\* line 72
LoopEnds(e, text_len) == e = text_len

\* variant: the next window starts where the last one ended
NextStart_NoOverlap(e, ov) == e

\* line 74
NextStart(e, ov) == e - ov

ChunkInit ==
    /\ RouterIdle
    /\ SelectOff
    /\ StoreOff
    /\ ProjOff
    /\ ck_pc = "call"
    /\ ck_text \in ChunkTexts
    /\ chunk_size \in 1..MaxChunk
    /\ overlap \in -1..chunk_size
    /\ start = 0
    /\ chunks = <<>>
    /\ unlisted = 0

\* lines 64-68
ChunkEnter ==
    /\ ck_pc = "call"
    /\ ck_pc' = IF ck_text = <<>> THEN "done" ELSE "loop"
    /\ chunks' = <<>>
    /\ unlisted' = 0
    /\ start' = 0
    /\ UNCHANGED <<ck_text, chunk_size, overlap, routerVars, selectVars,
                   storeVars, queryVars, projVars>>

\* lines 69-74: one iteration of the while loop
ChunkStep ==
    /\ ck_pc = "loop"
    /\ start < Len(ck_text)
    /\ LET end == WindowEnd(start, chunk_size, Len(ck_text))
       IN  /\ chunks' = Appended(chunks, Slice(ck_text, start, end))
           /\ unlisted' = Unlisted(chunks, unlisted)
           /\ IF LoopEnds(end, Len(ck_text))
              THEN ck_pc' = "done" /\ start' = start
              ELSE ck_pc' = ck_pc /\ start' = NextStart(end, overlap)
    /\ UNCHANGED <<ck_text, chunk_size, overlap, routerVars, selectVars,
                   storeVars, queryVars, projVars>>

\* lines 69 and 75: the while condition fails
ChunkExit ==
    /\ ck_pc = "loop"
    /\ ~(start < Len(ck_text))
    /\ ck_pc' = "done"
    /\ UNCHANGED <<ck_text, chunk_size, overlap, start, chunks, unlisted,
                   routerVars, selectVars, storeVars, queryVars, projVars>>

ChunkNext ==
    \/ ChunkEnter
    \/ ChunkStep
    \/ ChunkExit

\* the interpreter keeps running the loop: a step that can be taken is taken
ChunkSpec == ChunkInit /\ [][ChunkNext]_vars /\ WF_vars(ChunkNext)

----------------------------------------------------------------------------
(* Vocabulary of the properties *)

InStandard == pc # "idle" /\ req.compare_models = <<>>

InCompare == pc # "idle" /\ req.compare_models # <<>>

Finished == pc \in {"returned", "raised"}

\* the positions of the call log where model m was invoked
CallsOf(m) == {i \in 1..Len(calls) : calls[i].model = m}

\* the positions of seq that hold x
Positions(seq, x) == {i \in 1..Len(seq) : seq[i] = x}

NoDuplicates(seq) == \A i, j \in 1..Len(seq) : seq[i] = seq[j] => i = j

\* the candidates after position i
Remaining(i) == SubSeq(candidates, i + 1, Len(candidates))

\* the exception a provider raised in the i-th call of the log
ErrorOfCall(i) == Exc("ProviderError", calls[i].out, calls[i].model, i)

----------------------------------------------------------------------------
(* C1: standard mode, allow_fallback = False: once the first candidate has
   failed, that one invocation is the only one of the call, the loop is left
   at once, and the call raises the first candidate's own exception. *)
C1_NoFallbackFailsAtOnce ==
    (InStandard /\ ~req.allow_fallback /\ Len(calls) >= 1 /\ ~calls[1].ok)
    => /\ Len(calls) = 1
       /\ calls[1].model = candidates[1]
       /\ pc \in {"std_end", "raised"}
       /\ pc = "raised" => ret = Raises(ErrorOfCall(1))

C1_Witness ==
    /\ InStandard /\ ~req.allow_fallback /\ pc = "raised"
    /\ Len(candidates) >= 3
    /\ Len(calls) = 1 /\ ~calls[1].ok

(* C2: standard mode, allow_fallback = True, the first candidate failed and
   gpt-5.1 stands later in the candidate list: the call does not end before
   gpt-5.1 was invoked, unless it ends with the success of a candidate placed
   before gpt-5.1; and while gpt-5.1 was not invoked and the call has not
   ended, the loop is still running with gpt-5.1 ahead of it. *)
C2_PrimaryFallbackIsTried ==
    (/\ InStandard /\ req.allow_fallback
     /\ Len(calls) >= 1 /\ ~calls[1].ok
     /\ PRIMARY \in Range(Remaining(1)))
    => \/ CallsOf(PRIMARY) # {}
       \/ /\ pc = "returned"
          /\ calls[Len(calls)].ok
          /\ \A k \in Positions(candidates, PRIMARY) : k = 1 \/ Len(calls) < k
       \/ /\ pc = "standard"
          /\ idx <= Len(candidates)
          /\ PRIMARY \in Range(Remaining(idx - 1))

C2_Witness ==
    /\ InStandard /\ req.allow_fallback /\ pc = "raised"
    /\ Len(calls) >= 3 /\ ~calls[1].ok
    /\ candidates[1] # PRIMARY
    /\ calls[Len(calls)].model = PRIMARY

(* C3 as stated: standard mode, allow_fallback = True: a candidate is invoked
   after the failure of candidate i only if gpt-5.1 is among the candidates
   after position i. *)
C3_Original_StopsWithoutPrimaryAhead ==
    (InStandard /\ req.allow_fallback)
    => \A i \in 1..Len(calls) :
         (~calls[i].ok /\ i < Len(calls)) => PRIMARY \in Range(Remaining(i))

(* C3 as amended: standard mode, allow_fallback = True: after the failure of
   candidate i the router goes on to candidate i+1 whenever there is one,
   whether or not gpt-5.1 is among the remaining candidates; it gives up only
   when the list is exhausted. *)
C3_GoesOnUntilExhausted ==
    (InStandard /\ req.allow_fallback)
    => /\ (Len(calls) >= 1 /\ ~calls[Len(calls)].ok
              /\ Len(calls) < Len(candidates))
          => (pc = "standard" /\ idx = Len(calls) + 1)
       /\ pc = "raised" => Len(calls) = Len(candidates)
       /\ \A i \in 1..Len(calls) : calls[i].model = candidates[i]

C3_Witness ==
    /\ InStandard /\ req.allow_fallback /\ pc = "raised"
    /\ \E i \in 1..Len(calls) :
         /\ i < Len(calls) /\ ~calls[i].ok
         /\ PRIMARY \notin Range(Remaining(i))

(* C4 as stated: within one generate_text call no model is invoked more than
   once (counting the invocations that reach a provider, those of registered
   models). *)
C4_Original_NoModelInvokedTwice ==
    \A i, j \in 1..Len(calls) :
      (calls[i].model \in MODEL_REGISTRY /\ calls[i].model = calls[j].model)
      => i = j

\* compare mode: the calls made for slot k, by the requested model and by
\* the fallback
OwnCalls(k) == {i \in 1..Len(calls) : calls[i].slot = k /\ ~calls[i].fallback}

FallbackCalls(k) == {i \in 1..Len(calls) : calls[i].slot = k /\ calls[i].fallback}

(* C4 as amended: within one generate_text call no position is invoked twice.
   In standard mode a model is invoked at most as often as it occurs in the
   candidate list, hence at most once when a model override is given or
   preferred_models repeats no name.  In compare mode each slot invokes its
   requested model once and gpt-5.1 at most once more, as the fallback of a
   failed requested model other than gpt-5.1. *)
C4_NoPositionInvokedTwice ==
    /\ InStandard =>
         /\ \A m \in MODEL_REGISTRY \cup InputNames :
              Cardinality(CallsOf(m)) <= Cardinality(Positions(candidates, m))
         /\ (Truthy(req.model) \/ NoDuplicates(req.preferred_models))
               => C4_Original_NoModelInvokedTwice
    /\ InCompare =>
         \A k \in 1..Len(req.compare_models) :
           /\ Cardinality(OwnCalls(k)) <= 1
           /\ Cardinality(FallbackCalls(k)) <= 1
           /\ \A i \in OwnCalls(k) : calls[i].model = req.compare_models[k]
           /\ \A j \in FallbackCalls(k) :
                /\ calls[j].model = PRIMARY
                /\ req.compare_models[k] # PRIMARY
                /\ \E i \in OwnCalls(k) : i < j /\ ~calls[i].ok

C4_Witness ==
    /\ InCompare /\ pc = "returned"
    /\ Len(req.compare_models) >= 2
    /\ \A k \in 1..Len(req.compare_models) : FallbackCalls(k) # {}

(* C5: standard mode: when every candidate was invoked and every one failed,
   the exception raised to the caller is the one the last candidate raised. *)
C5_LastErrorIsRaised ==
    (/\ InStandard /\ Finished
     /\ Len(calls) >= 1 /\ Len(calls) = Len(candidates)
     /\ \A i \in 1..Len(calls) : ~calls[i].ok)
    => /\ pc = "raised"
       /\ ret = Raises(ErrorOfCall(Len(calls)))
       /\ calls[Len(calls)].model = candidates[Len(candidates)]

C5_Witness ==
    /\ InStandard /\ pc = "raised"
    /\ Len(calls) >= 3 /\ Len(calls) = Len(candidates)
    /\ calls[1].out # calls[Len(calls)].out

\* compare mode: the slots whose entry was appended to results
DoneSlots == 1..Len(results)

(* C6: compare mode never raises and returns one entry per requested model,
   entry k made from the invocations for the k-th requested model. *)
C6_OneEntryPerRequestedModel ==
    InCompare =>
      /\ pc \in {"compare", "compare_fb", "returned"}
      /\ Len(results) = idx - 1
      /\ idx <= Len(req.compare_models) + (IF pc = "compare_fb" THEN 0 ELSE 1)
      /\ pc = "returned" =>
           /\ ret = Returns(results)
           /\ Len(results) = Len(req.compare_models)
      /\ \A k \in DoneSlots :
           /\ OwnCalls(k) # {}
           /\ IF req.return_meta
              THEN \/ results[k].model_used = req.compare_models[k]
                   \/ /\ results[k].model_used = PRIMARY
                      /\ FallbackCalls(k) # {}
              ELSE results[k] \in
                     {calls[i].out : i \in OwnCalls(k) \cup FallbackCalls(k)}

C6_Witness ==
    /\ InCompare /\ pc = "returned"
    /\ Len(ret.value) = 2
    /\ \E i, j \in 1..Len(calls) : ~calls[i].ok /\ calls[j].fallback /\ ~calls[j].ok
    /\ \E i \in 1..Len(calls) : calls[i].ok

(* C7: compare mode: a failed requested model other than gpt-5.1, with
   allow_fallback, gets exactly one gpt-5.1 invocation for its slot, whose
   success fills the slot with from_fallback = true and model_used = gpt-5.1;
   a successful requested model gets no fallback invocation and
   from_fallback = false. *)
C7_FallbackOncePerFailedSlot ==
    InCompare =>
      \A k \in DoneSlots : \A i \in OwnCalls(k) :
        LET m == req.compare_models[k]
        IN  /\ (~calls[i].ok /\ req.allow_fallback /\ m # PRIMARY) =>
                 /\ Cardinality(FallbackCalls(k)) = 1
                 /\ \A j \in FallbackCalls(k) :
                      /\ calls[j].model = PRIMARY
                      /\ calls[j].ok =>
                           results[k] =
                             Entry([text |-> calls[j].out, model_used |-> PRIMARY,
                                    provider |-> "openai", from_fallback |-> TRUE],
                                   req.return_meta)
            /\ calls[i].ok =>
                 /\ FallbackCalls(k) = {}
                 /\ results[k] =
                      Entry([text |-> calls[i].out, model_used |-> m,
                             provider |-> Provider(m), from_fallback |-> FALSE],
                            req.return_meta)

C7_Witness ==
    /\ InCompare /\ pc = "returned" /\ req.return_meta
    /\ Len(results) = 2
    /\ "text" \in DOMAIN results[1] /\ "text" \in DOMAIN results[2]
    /\ results[1].model_used = PRIMARY /\ results[1].from_fallback
    /\ results[2].model_used = "gpt-5-mini" /\ ~results[2].from_fallback

\* compare mode: slot k ends in failure: its requested model failed and no
\* fallback could stand in
SlotFailed(k) ==
    \E i \in OwnCalls(k) :
      /\ ~calls[i].ok
      /\ \/ ~req.allow_fallback
         \/ req.compare_models[k] = PRIMARY
         \/ \E j \in FallbackCalls(k) : ~calls[j].ok

(* C8: compare mode: a slot holds an error entry exactly when its requested
   model failed and fallback is off, or the model is gpt-5.1, or the gpt-5.1
   fallback failed too; the entry carries the message of the requested
   model's own failure and model_used = the requested model. *)
C8_ErrorEntryOfOwnFailure ==
    InCompare =>
      \A k \in DoneSlots : \A i \in OwnCalls(k) :
        IF SlotFailed(k)
        THEN results[k] =
               (IF req.return_meta
                THEN [error |-> calls[i].out, model_used |-> req.compare_models[k]]
                ELSE calls[i].out)
        ELSE IF req.return_meta
             THEN DOMAIN results[k] =
                    {"text", "model_used", "provider", "from_fallback"}
             ELSE \E j \in OwnCalls(k) \cup FallbackCalls(k) :
                    calls[j].ok /\ results[k] = calls[j].out

C8_Witness ==
    /\ InCompare /\ pc = "returned" /\ req.return_meta
    /\ \E k \in DoneSlots : \E i \in OwnCalls(k) : \E j \in FallbackCalls(k) :
         /\ ~calls[i].ok /\ ~calls[j].ok
         /\ calls[i].out # calls[j].out
         /\ results[k].error = calls[i].out

(* C9: a terminal failure never looks like a success: a standard-mode call
   whose every attempt failed raises, and a compare-mode slot whose every
   attempt failed holds an entry that no generated text can equal, with and
   without return_meta. *)
C9_FailureNeverLooksLikeSuccess ==
    /\ (InStandard /\ Finished /\ \A i \in 1..Len(calls) : ~calls[i].ok)
          => (pc = "raised" /\ ret.kind = "raise")
    /\ InCompare =>
         \A k \in DoneSlots :
           (\A i \in OwnCalls(k) \cup FallbackCalls(k) : ~calls[i].ok) =>
              IF req.return_meta
              THEN "error" \in DOMAIN results[k] /\ "text" \notin DOMAIN results[k]
              ELSE results[k] \notin Strings

\* standard mode: what generate_text got from select_models
Selected == select_models(req.task, req.strategy, req.preferred_models)

\* the first position of seq that holds x
FirstPosition(seq, x) == CHOOSE i \in Positions(seq, x) :
                             \A j \in Positions(seq, x) : i <= j

\* the candidates other than the override are the registered names of
\* Selected, each once, in the order of their first occurrences
RestKeepsOrder ==
    /\ NoDuplicates(candidates)
    /\ Range(candidates) \ {req.model} =
         (Range(Selected) \cap MODEL_REGISTRY) \ {req.model}
    /\ \A i, j \in 1..Len(candidates) :
         (i < j /\ candidates[i] # req.model /\ candidates[j] # req.model)
         => FirstPosition(Selected, candidates[i])
              < FirstPosition(Selected, candidates[j])

\* candidates are invoked in list order and none after a success
InvokedInListOrder ==
    /\ Len(calls) <= Len(candidates)
    /\ \A i \in 1..Len(calls) :
         /\ calls[i].model = candidates[i]
         /\ calls[i].ok => (i = Len(calls) /\ pc = "returned")

(* C10 as stated: standard mode with a model override: the override is the
   head of the candidate list, occurs once in it and is the first model
   invoked; the other candidates keep their order, candidates are invoked in
   list order and none after the first success. *)
C10_Original_OverrideIsFirst ==
    (InStandard /\ Truthy(req.model))
    => /\ Positions(candidates, req.model) = {1}
       /\ Len(calls) >= 1 => calls[1].model = req.model
       /\ RestKeepsOrder
       /\ InvokedInListOrder

(* C10 as amended: standard mode with a model override that names a
   registered model: the override is the head of the candidate list, occurs
   once in it and is the first model invoked; an override that names no
   registered model is dropped from the list.  In both cases the other
   candidates keep their order, candidates are invoked in list order and none
   after the first success. *)
C10_RegisteredOverrideIsFirst ==
    (InStandard /\ Truthy(req.model))
    => /\ req.model \in MODEL_REGISTRY =>
            /\ Positions(candidates, req.model) = {1}
            /\ Len(calls) >= 1 => calls[1].model = req.model
       /\ req.model \notin MODEL_REGISTRY => req.model \notin Range(candidates)
       /\ RestKeepsOrder
       /\ InvokedInListOrder

C10_Witness ==
    /\ InStandard /\ pc = "returned"
    /\ req.model = PRIMARY
    /\ Selected = <<"gpt-5-mini", "gemini-1.5-flash", "gpt-5.1", "grok-4.1">>
    /\ Len(calls) = 3 /\ calls[3].model = "gemini-1.5-flash"

(* C11: standard mode with a candidate list that is empty from the start (as
   when preferred_models holds only unregistered names and no registered
   override is given): no model is invoked, no exception was recorded, and
   the call raises ModelUnavailable("No model available ..."). *)
C11_EmptyCandidatesRaiseModelUnavailable ==
    (InStandard /\ candidates = <<>>)
    => /\ calls = <<>>
       /\ last_err = NoErr
       /\ pc \in {"standard", "raised"}
       /\ pc = "raised" =>
            /\ ret.kind = "raise"
            /\ ret.exc.type = "ModelUnavailable"
            /\ ret.exc.msg = "No model available to fulfill the request"
            /\ ret.exc.at = 0

C11_Witness ==
    /\ InStandard /\ pc = "raised"
    /\ req.preferred_models = <<"x", "x">>
    /\ ~Truthy(req.model)
    /\ calls = <<>>
    /\ ret.exc.type = "ModelUnavailable"

----------------------------------------------------------------------------
(* Properties of select_models, under SelectSpec *)

SelectDone == sel_pc = "done"

NoPreferred == sel_args.preferred_models = <<>>

\* the positions of preferred_models that hold a registered name
RegisteredPositions ==
    {i \in 1..Len(sel_args.preferred_models) :
       sel_args.preferred_models[i] \in MODEL_REGISTRY}

\* out lists the registered names of seq, each once, in the order of their
\* first occurrences in seq
IsFirstOccurrences(out, seq) ==
    /\ NoDuplicates(out)
    /\ Range(out) = Range(seq) \cap MODEL_REGISTRY
    /\ \A i, j \in 1..Len(out) :
         i < j => FirstPosition(seq, out[i]) < FirstPosition(seq, out[j])

\* the task's default list as the specification words it: empty when the
\* task is unset or unknown
TaskListOf(task) == IF task \in KnownTasks THEN TaskDefaults(task) ELSE <<>>

\* the strategy's list as the specification words it: the "default" list when
\* the strategy is unset or unknown
StrategyListOf(strategy) ==
    IF strategy \in KnownStrategies THEN StrategyPresets(strategy)
    ELSE StrategyPresets("default")

(* C12 as stated: select_models never returns an empty list, whatever task,
   strategy and preferred_models are. *)
C12_Original_NeverEmpty == SelectDone => sel_out # <<>>

(* C12 as amended: select_models returns an empty list exactly when
   preferred_models is non-empty and holds no registered name; for every
   other combination of task, strategy and preferred_models the list is
   non-empty. *)
C12_EmptyOnlyForUnregisteredPreferred ==
    SelectDone =>
      (sel_out = <<>> <=> (~NoPreferred /\ RegisteredPositions = {}))

C12_Witness ==
    /\ SelectDone
    /\ sel_args.preferred_models = <<"x">>
    /\ sel_args.task = "short" /\ sel_args.strategy = "creative"
    /\ sel_out = <<>>

(* C13: without preferred_models, select_models returns a non-empty list for
   every task and strategy, known, unset or unknown. *)
C13_DefaultsNeverEmpty == (SelectDone /\ NoPreferred) => sel_out # <<>>

C13_Witness ==
    /\ SelectDone /\ NoPreferred
    /\ sel_args.task = "nosuch" /\ sel_args.strategy = "nosuch"
    /\ sel_out = <<"gpt-5-mini", "gpt-5.1">>

(* C14: with a non-empty preferred_models, select_models returns
   preferred_models without its unregistered names, in the caller's order and
   with the caller's repetitions, whatever task and strategy are. *)
C14_PreferredOverrides ==
    (SelectDone /\ ~NoPreferred) =>
      /\ Len(sel_out) = Cardinality(RegisteredPositions)
      /\ \A i \in RegisteredPositions :
           sel_out[Cardinality({j \in RegisteredPositions : j <= i})]
             = sel_args.preferred_models[i]

C14_Witness ==
    /\ SelectDone
    /\ sel_args.preferred_models = <<"x", "grok-4.1">>
    /\ sel_args.task = "short" /\ sel_args.strategy = "gemini"
    /\ sel_out = <<"grok-4.1">>

(* C15: without preferred_models, select_models returns the task's default
   list (empty when the task is unset or unknown) followed by the strategy's
   list (the "default" list when the strategy is unset or unknown), every
   name at its first occurrence only and no unregistered name. *)
C15_TaskListThenStrategyList ==
    (SelectDone /\ NoPreferred) =>
      IsFirstOccurrences(sel_out,
                         TaskListOf(sel_args.task)
                           \o StrategyListOf(sel_args.strategy))

(* C16: for a known task and a strategy that is unset or is an unknown label,
   select_models returns the task's default list followed by the "default"
   strategy list, deduplicated: an unknown label gives what an unset strategy
   gives. *)
C16_UnknownStrategyMeansDefault ==
    (/\ SelectDone /\ NoPreferred
     /\ sel_args.task \in KnownTasks
     /\ sel_args.strategy \notin KnownStrategies)
    => /\ IsFirstOccurrences(sel_out,
                             TaskDefaults(sel_args.task)
                               \o StrategyPresets("default"))
       /\ sel_out = select_models(sel_args.task, NONE, <<>>)

(* C17: for task "short" without preferred_models, whatever the strategy, the
   returned list starts with the "short" task's default list in its own
   order, and what follows are models of the strategy's list only. *)
C17_ShortTaskListFirst ==
    (SelectDone /\ NoPreferred /\ sel_args.task = "short") =>
      LET short == TaskDefaults("short")
      IN  /\ Len(sel_out) >= Len(short)
          /\ SubSeq(sel_out, 1, Len(short)) = short
          /\ \A k \in (Len(short) + 1)..Len(sel_out) :
               /\ sel_out[k] \notin Range(short)
               /\ sel_out[k] \in Range(StrategyPresets(sel_args.strategy))

C17_Witness ==
    /\ SelectDone /\ NoPreferred
    /\ sel_args.task = "short" /\ sel_args.strategy = "creative"
    /\ sel_out = <<"gpt-5-mini", "gemini-1.5-flash", "gpt-5.1", "grok-4.1">>

----------------------------------------------------------------------------
\* an entry of a result made with return_meta: a result record, not an error
IsResult(e) == "text" \in DOMAIN e

(* C27: in every result generate_text returns with return_meta=True,
   from_fallback is true exactly when the text comes from a model other than
   the first model attempted for the request (standard mode) or for the slot
   (compare mode). *)
C27_FromFallbackIffSubstituted ==
    (pc = "returned" /\ req.return_meta) =>
      /\ InStandard =>
           ret.value.from_fallback = (ret.value.model_used # calls[1].model)
      /\ InCompare =>
           \A k \in 1..Len(results) :
             IsResult(results[k]) =>
               results[k].from_fallback
                 = (results[k].model_used # req.compare_models[k])

----------------------------------------------------------------------------
(* Properties of chunk_text, under ChunkSpec *)

ChunkDone == ck_pc = "done"

(* C18: chunk_text terminates for every text, chunk_size and overlap, also
   when overlap >= chunk_size. *)
C18_ChunkTextTerminates == <>ChunkDone

\* 0 <= overlap < chunk_size on a non-empty text
ForwardProgress == ck_text # <<>> /\ 0 <= overlap /\ overlap < chunk_size

\* the k-th window (k = 0, 1, ...) as the formula of the claim gives it
Window(k) ==
    LET from == k * (chunk_size - overlap)
    IN  SubSeq(ck_text, from + 1, Min(from + chunk_size, Len(ck_text)))

\* window k reaches the end of the text
ReachesEnd(k) == k * (chunk_size - overlap) + chunk_size >= Len(ck_text)

(* C19: for a non-empty text and 0 <= overlap < chunk_size, chunk_text
   returns the windows text[k*(chunk_size-overlap) :
   min(k*(chunk_size-overlap)+chunk_size, len(text))] for k = 0, 1, ... up to
   and including the first that reaches the end of the text: every window
   before the last has chunk_size characters, consecutive windows share
   overlap characters, the last ends at the end of the text, none is empty,
   and every position of the text lies in a window. *)
C19_WindowsOfTheFormula ==
    (ForwardProgress /\ ck_pc \in {"loop", "done"}) =>
      LET n == Len(chunks)
      IN  /\ n <= Len(ck_text)
          /\ unlisted = 0
          /\ \A k \in 0..(n - 1) :
               /\ chunks[k + 1] = Window(k)
               /\ chunks[k + 1] # <<>>
               /\ ReachesEnd(k) => (k = n - 1 /\ ChunkDone)
               /\ k < n - 1 =>
                    /\ Len(chunks[k + 1]) = chunk_size
                    /\ SubSeq(chunks[k + 1], chunk_size - overlap + 1, chunk_size)
                         = SubSeq(chunks[k + 2], 1, overlap)
          /\ ck_pc = "loop" => start = n * (chunk_size - overlap)
          /\ ChunkDone =>
               /\ n >= 1
               /\ ReachesEnd(n - 1)
               /\ \A p \in 1..Len(ck_text) :
                    \E k \in 0..(n - 1) :
                      /\ k * (chunk_size - overlap) < p
                      /\ p <= k * (chunk_size - overlap) + Len(chunks[k + 1])

C19_Witness ==
    /\ ChunkDone
    /\ ck_text = ExampleText /\ chunk_size = 4 /\ overlap = 1
    /\ chunks = << <<"a", "b", "c", "d">>, <<"d", "e", "f", "g">>,
                   <<"g", "h", "i", "j">> >>

(* C20: chunk_text of the empty text returns the empty sequence, and
   chunk_text of a non-empty text no longer than chunk_size returns the
   one-element sequence [text], for every overlap. *)
C20_EmptyAndShortTexts ==
    /\ (ChunkDone /\ ck_text = <<>>) => chunks = <<>>
    /\ (ck_text # <<>> /\ Len(ck_text) <= chunk_size) =>
         /\ ck_pc = "loop" => (chunks = <<>> /\ start = 0)
         /\ ChunkDone => (chunks = <<ck_text>> /\ unlisted = 0)

C20_Witness ==
    /\ ChunkDone
    /\ ck_text = <<"a", "b">> /\ chunk_size = 2 /\ overlap = 2
    /\ chunks = << <<"a", "b">> >>

----------------------------------------------------------------------------
(* VectorStore.upsert_embedding, delete_chunks and query_similar
   (vector_store.py lines 77-137), over one Redis *)

\* upsert_embedding calls started in one run
MaxUpserts == 2

\* chunk_text's defaults (line 62: 600 and 100) on the scale of the model's
\* contents: the overlap is smaller than the chunk size
DefaultChunkSize == 2

DefaultOverlap == 1

RECURSIVE ChunkFrom(_, _, _, _)
\* lines 69-75 from `start` = s on
ChunkFrom(text, size, ov, s) ==
    IF ~(s < Len(text))
    THEN <<>>
    ELSE LET e == WindowEnd(s, size, Len(text))
         IN  IF LoopEnds(e, Len(text))
             THEN <<Slice(text, s, e)>>
             ELSE <<Slice(text, s, e)>> \o ChunkFrom(text, size, ov, NextStart(e, ov))

\* chunk_text(content) as line 88 calls it
chunk_text(text) ==
    IF text = <<>> THEN <<>> ELSE ChunkFrom(text, DefaultChunkSize, DefaultOverlap, 0)

\* the (project_id, ref_type, ref_id) keys of the callers
StoreKeys ==
    {[project_id |-> 1, ref_type |-> "chapter", ref_id |-> 7],
     [project_id |-> 1, ref_type |-> "world", ref_id |-> 7],
     [project_id |-> 2, ref_type |-> "chapter", ref_id |-> 7]}

StoreContents == {<<>>, <<"x">>, <<"a", "b", "c">>}

UpsertArgs ==
    {[project_id |-> k.project_id, ref_type |-> k.ref_type, ref_id |-> k.ref_id,
      content |-> c] : k \in StoreKeys, c \in StoreContents}

QueryArgs ==
    [project_id : {1, 2}, query : {<<>>, <<"x">>}, top_k : {1, 2}]

\* variant: the ordinal is left out of the key
DocId_NoOrdinal(p, t, r, i) == <<p, t, r, 0>>

\* f"{DOC_PREFIX}{project_id}:{ref_type}:{ref_id}:{idx}" (line 99)
DocId(p, t, r, i) == <<p, t, r, i>>

\* variant: the pattern names the project only
Matches_ProjectOnly(id, p, t, r) == id[1] = p

\* a key matches f"{DOC_PREFIX}{project_id}:{ref_type}:{ref_id}:*" (line 79);
\* the ref types of the callers hold neither ":" nor "*"
Matches(id, p, t, r) == id[1] = p /\ id[2] = t /\ id[3] = r

\* embed_texts: the vector of one text, the same at every call
Embedding(chunk) == [of |-> chunk]

\* _to_bytes (lines 58-60)
ToBytes(vec) == [float32 |-> vec]

\* the mapping of lines 102-108 under its key
Hash(p, t, r, i, chunk, embedding) ==
    [id |-> DocId(p, t, r, i), project_id |-> p, type |-> t, ref_id |-> r,
     content |-> chunk, embedding |-> ToBytes(embedding)]

\* HSET: the hash under that key is replaced
HSet(s, d) == {e \in s : e.id # d.id} \cup {d}

\* list(r.scan_iter(pattern)) (line 80)
Scan(s, p, t, r) == {d.id : d \in {e \in s : Matches(e.id, p, t, r)}}

\* variant: nothing is deleted
Deleted_None(s, keys) == s

\* r.delete(*keys) (lines 81-82)
Deleted(s, keys) == {d \in s : d.id \notin keys}

RECURSIVE Written(_, _, _, _, _, _, _)
\* lines 98-110: the hsets of the pipeline from enumerate index i on, executed
\* as one transaction; zip stops at the shorter list
Written(s, p, t, r, chunks_, embeddings, i) ==
    IF i >= Min(Len(chunks_), Len(embeddings))
    THEN s
    ELSE Written(HSet(s, Hash(p, t, r, i, chunks_[i + 1], embeddings[i + 1])),
                 p, t, r, chunks_, embeddings, i + 1)

\* embed_texts(chunks)
Embeddings(chunks_) == [i \in 1..Len(chunks_) |-> Embedding(chunks_[i])]

\* variant: the old chunks are deleted first
UpsertOrder_DeleteFirst == <<"scan", "embed", "ensure", "write">>

\* lines 92-110: embed_texts, ensure_index, delete_chunks, the pipeline
UpsertOrder == <<"embed", "ensure", "scan", "write">>

\* the step of upsert_embedding that follows `step`
StepAfter(step) ==
    LET i == CHOOSE j \in 1..Len(UpsertOrder) : UpsertOrder[j] = step
    IN  IF i = Len(UpsertOrder) THEN "return" ELSE UpsertOrder[i + 1]

\* upsert_embedding of caller w goes on at `step`, or returns
Goto(w, step) ==
    /\ up_pc' = [up_pc EXCEPT ![w] = IF step = "return" THEN "idle" ELSE step]
    /\ up_ret' = [up_ret EXCEPT ![w] = IF step = "return" THEN "ok" ELSE @]

\* upsert_embedding of caller w raises
Fails(w, error) ==
    /\ up_pc' = [up_pc EXCEPT ![w] = "idle"]
    /\ up_ret' = [up_ret EXCEPT ![w] = error]

\* lines 84-91: the call starts; empty content, or content without chunks,
\* goes to delete_chunks and returns
UpsertStart(w, a) ==
    /\ w \in active
    /\ budget > 0
    /\ up_pc[w] = "idle"
    /\ budget' = budget - 1
    /\ up_args' = [up_args EXCEPT ![w] = a]
    /\ up_keys' = [up_keys EXCEPT ![w] = {}]
    /\ up_embedded' = [up_embedded EXCEPT ![w] = FALSE]
    /\ up_before' = [up_before EXCEPT ![w] = docs]
    /\ up_prev' = [up_prev EXCEPT ![w] =
                     IF up_ret[w] = "none"
                     THEN NoPrev
                     ELSE [ret |-> up_ret[w], args |-> up_args[w],
                           before |-> up_before[w]]]
    /\ up_ret' = [up_ret EXCEPT ![w] = "running"]
    /\ up_pc' = [up_pc EXCEPT ![w] =
                   IF a.content = <<>> \/ chunk_text(a.content) = <<>>
                   THEN "scan"
                   ELSE UpsertOrder[1]]
    /\ UNCHANGED <<docs, index_exists, active>>
    /\ UNCHANGED <<routerVars, selectVars, chunkVars, queryVars, projVars>>

\* line 92: embed_texts returns one vector per chunk
UpsertEmbedOk(w) ==
    /\ up_pc[w] = "embed"
    /\ up_embedded' = [up_embedded EXCEPT ![w] = TRUE]
    /\ Goto(w, StepAfter("embed"))
    /\ UNCHANGED <<docs, index_exists, active, budget, up_args, up_keys,
                   up_before, up_prev>>
    /\ UNCHANGED <<routerVars, selectVars, chunkVars, queryVars, projVars>>

\* line 92: embed_texts raises
UpsertEmbedFail(w) ==
    /\ up_pc[w] = "embed"
    /\ up_embedded' = [up_embedded EXCEPT ![w] = TRUE]
    /\ Fails(w, "embed_error")
    /\ UNCHANGED <<docs, index_exists, active, budget, up_args, up_keys,
                   up_before, up_prev>>
    /\ UNCHANGED <<routerVars, selectVars, chunkVars, queryVars, projVars>>

\* ensure_index, lines 30-35: info() finds the index, or raises
UpsertEnsureInfo(w) ==
    /\ up_pc[w] = "ensure"
    /\ \E found \in (IF index_exists THEN {TRUE, FALSE} ELSE {FALSE}) :
         IF found
         THEN Goto(w, StepAfter("ensure"))
         ELSE up_pc' = [up_pc EXCEPT ![w] = "create"] /\ up_ret' = up_ret
    /\ UNCHANGED <<docs, index_exists, active, budget, up_args, up_keys,
                   up_embedded, up_before, up_prev>>
    /\ UNCHANGED <<routerVars, selectVars, chunkVars, queryVars, projVars>>

\* ensure_index, lines 37-56: create_index creates the index
UpsertCreateOk(w) ==
    /\ up_pc[w] = "create"
    /\ ~index_exists
    /\ index_exists' = TRUE
    /\ Goto(w, StepAfter("ensure"))
    /\ UNCHANGED <<docs, active, budget, up_args, up_keys, up_embedded,
                   up_before, up_prev>>
    /\ UNCHANGED <<routerVars, selectVars, chunkVars, queryVars, projVars>>

\* ensure_index, line 55: create_index raises (as it does when the index
\* exists by now)
UpsertCreateFail(w) ==
    /\ up_pc[w] = "create"
    /\ Fails(w, "index_error")
    /\ UNCHANGED <<docs, index_exists, active, budget, up_args, up_keys,
                   up_embedded, up_before, up_prev>>
    /\ UNCHANGED <<routerVars, selectVars, chunkVars, queryVars, projVars>>

\* delete_chunks, lines 78-80: the keys of the pattern are listed
DeleteScan(w) ==
    /\ up_pc[w] = "scan"
    /\ up_keys' = [up_keys EXCEPT ![w] =
                     Scan(docs, up_args[w].project_id, up_args[w].ref_type,
                          up_args[w].ref_id)]
    /\ up_pc' = [up_pc EXCEPT ![w] = "delete"]
    /\ UNCHANGED <<docs, index_exists, active, budget, up_args, up_ret,
                   up_embedded, up_before, up_prev>>
    /\ UNCHANGED <<routerVars, selectVars, chunkVars, queryVars, projVars>>

\* delete_chunks, lines 81-82: the listed keys are deleted; lines 87 and 91
\* return, line 96 goes on
DeleteKeys(w) ==
    /\ up_pc[w] = "delete"
    /\ docs' = IF up_keys[w] # {} THEN Deleted(docs, up_keys[w]) ELSE docs
    /\ Goto(w, IF up_args[w].content = <<>> \/ chunk_text(up_args[w].content) = <<>>
               THEN "return"
               ELSE StepAfter("scan"))
    /\ UNCHANGED <<index_exists, active, budget, up_args, up_keys,
                   up_embedded, up_before, up_prev>>
    /\ UNCHANGED <<routerVars, selectVars, chunkVars, queryVars, projVars>>

\* lines 97-110: the hsets are queued and pipe.execute() applies them all
UpsertWrite(w) ==
    /\ up_pc[w] = "write"
    /\ LET a == up_args[w]
           cs == chunk_text(a.content)
       IN  docs' = Written(docs, a.project_id, a.ref_type, a.ref_id, cs,
                           Embeddings(cs), 0)
    /\ Goto(w, StepAfter("write"))
    /\ UNCHANGED <<index_exists, active, budget, up_args, up_keys,
                   up_embedded, up_before, up_prev>>
    /\ UNCHANGED <<routerVars, selectVars, chunkVars, queryVars, projVars>>

\* line 110: pipe.execute() raises and the transaction is not applied; the
\* call is cut off after its delete_chunks
UpsertWriteFail(w) ==
    /\ up_pc[w] = "write"
    /\ Fails(w, "write_error")
    /\ UNCHANGED <<docs, index_exists, active, budget, up_args, up_keys,
                   up_embedded, up_before, up_prev>>
    /\ UNCHANGED <<routerVars, selectVars, chunkVars, queryVars, projVars>>

\* variant: the query names no project
ProjectFilter_Any(d, p) == TRUE

\* "@project_id:[{project_id} {project_id}]" (line 119)
ProjectFilter(d, p) == d.project_id = p

\* what the engine may answer to "=>[KNN {top_k} ...]" (lines 119-124): at
\* most top_k of the hashes that pass the filter, each once, in its ranking
SearchReplies(s, p, k) ==
    {seq \in SeqsUpTo({d \in s : ProjectFilter(d, p)}, k) : NoDuplicates(seq)}

\* lines 126-136: one entry per document of the reply, in the reply's order
QueryResults(reply, score) ==
    [i \in 1..Len(reply) |->
       [content |-> reply[i].content, type |-> reply[i].type,
        ref_id |-> reply[i].ref_id, project_id |-> reply[i].project_id,
        score |-> score]]

\* the upsert_embedding calls under way
UnderWay ==
    {[args |-> up_args[w], before |-> up_before[w]] :
       w \in {v \in Writers : up_pc[v] # "idle"}}

\* lines 112-114: the call starts; an empty query returns []
QueryStart(a) ==
    /\ qs_pc = "idle"
    /\ qs_args' = a
    /\ qs_pc' = IF a.query = <<>> THEN "done" ELSE "embed"
    /\ qs_after' = {w \in Writers : up_pc[w] = "idle" /\ up_ret[w] # "none"}
    /\ UNCHANGED <<qs_ret, qs_embedded, qs_view, qs_mid, qs_reply>>
    /\ UNCHANGED <<routerVars, selectVars, chunkVars, storeVars, projVars>>

\* line 115: embed_texts returns the query's vector
QueryEmbedOk ==
    /\ qs_pc = "embed"
    /\ qs_embedded' = TRUE
    /\ qs_pc' = "ensure"
    /\ UNCHANGED <<qs_args, qs_ret, qs_view, qs_mid, qs_after, qs_reply>>
    /\ UNCHANGED <<routerVars, selectVars, chunkVars, storeVars, projVars>>

\* line 115: embed_texts raises
QueryEmbedFail ==
    /\ qs_pc = "embed"
    /\ qs_embedded' = TRUE
    /\ qs_pc' = "failed"
    /\ UNCHANGED <<qs_args, qs_ret, qs_view, qs_mid, qs_after, qs_reply>>
    /\ UNCHANGED <<routerVars, selectVars, chunkVars, storeVars, projVars>>

\* ensure_index, lines 30-35, called at line 117
QueryEnsureInfo ==
    /\ qs_pc = "ensure"
    /\ \E found \in (IF index_exists THEN {TRUE, FALSE} ELSE {FALSE}) :
         qs_pc' = IF found THEN "search" ELSE "create"
    /\ UNCHANGED <<qs_args, qs_ret, qs_embedded, qs_view, qs_mid, qs_after, qs_reply>>
    /\ UNCHANGED <<routerVars, selectVars, chunkVars, storeVars, projVars>>

\* ensure_index, lines 37-56
QueryCreateOk ==
    /\ qs_pc = "create"
    /\ ~index_exists
    /\ index_exists' = TRUE
    /\ qs_pc' = "search"
    /\ UNCHANGED <<qs_args, qs_ret, qs_embedded, qs_view, qs_mid, qs_after, qs_reply>>
    /\ UNCHANGED <<docs, active, budget, up_pc, up_args, up_keys, up_ret,
                   up_embedded, up_before, up_prev>>
    /\ UNCHANGED <<routerVars, selectVars, chunkVars, projVars>>

\* ensure_index, line 55: create_index raises
QueryCreateFail ==
    /\ qs_pc = "create"
    /\ qs_pc' = "failed"
    /\ UNCHANGED <<qs_args, qs_ret, qs_embedded, qs_view, qs_mid, qs_after, qs_reply>>
    /\ UNCHANGED <<routerVars, selectVars, chunkVars, storeVars, projVars>>

\* lines 118-137: the search and the list made of its reply
QuerySearch ==
    /\ qs_pc = "search"
    /\ \E reply \in SearchReplies(docs, qs_args.project_id, qs_args.top_k),
          score \in {NONE, "score"} :
         qs_ret' = QueryResults(reply, score) /\ qs_reply' = reply
    /\ qs_view' = docs
    /\ qs_mid' = UnderWay
    /\ qs_pc' = "done"
    /\ UNCHANGED <<qs_args, qs_embedded, qs_after>>
    /\ UNCHANGED <<routerVars, selectVars, chunkVars, storeVars, projVars>>

\* the steps of upsert_embedding
UpsertNext ==
    \/ \E w \in Writers : \E a \in UpsertArgs : UpsertStart(w, a)
    \/ \E w \in Writers : UpsertEmbedOk(w)
    \/ \E w \in Writers : UpsertEmbedFail(w)
    \/ \E w \in Writers : UpsertEnsureInfo(w)
    \/ \E w \in Writers : UpsertCreateOk(w)
    \/ \E w \in Writers : UpsertCreateFail(w)
    \/ \E w \in Writers : DeleteScan(w)
    \/ \E w \in Writers : DeleteKeys(w)
    \/ \E w \in Writers : UpsertWrite(w)
    \/ \E w \in Writers : UpsertWriteFail(w)

\* the steps of upsert_embedding and of query_similar
QueryNext ==
    \/ \E w \in Writers : \E a \in UpsertArgs : UpsertStart(w, a)
    \/ \E w \in Writers : UpsertEmbedOk(w)
    \/ \E w \in Writers : UpsertEmbedFail(w)
    \/ \E w \in Writers : UpsertEnsureInfo(w)
    \/ \E w \in Writers : UpsertCreateOk(w)
    \/ \E w \in Writers : UpsertCreateFail(w)
    \/ \E w \in Writers : DeleteScan(w)
    \/ \E w \in Writers : DeleteKeys(w)
    \/ \E w \in Writers : UpsertWrite(w)
    \/ \E w \in Writers : UpsertWriteFail(w)
    \/ \E a \in QueryArgs : QueryStart(a)
    \/ QueryEmbedOk
    \/ QueryEmbedFail
    \/ QueryEnsureInfo
    \/ QueryCreateOk
    \/ QueryCreateFail
    \/ QuerySearch

\* the hashes of key k after content c was indexed
Indexed(k, c) ==
    Written({}, k.project_id, k.ref_type, k.ref_id, chunk_text(c),
            Embeddings(chunk_text(c)), 0)

\* the stores that earlier upsert_embedding calls, one after another, leave
IndexedStores ==
    {UNION {Indexed(k, f[k]) : k \in StoreKeys} : f \in [StoreKeys -> StoreContents]}

\* a Redis that holds earlier content; the index exists once something was
\* indexed
StoreStart ==
    /\ RouterIdle /\ SelectOff /\ ChunkOff /\ ProjOff
    /\ CallersIdle
    /\ docs \in IndexedStores
    /\ index_exists \in (IF docs = {} THEN BOOLEAN ELSE {TRUE})

\* one caller re-indexes, call after call
StoreInit == StoreStart /\ active = {"w1"} /\ budget = MaxUpserts

StoreSpec == StoreInit /\ [][UpsertNext]_vars

\* one caller makes one call while a reader queries
QueryInit == StoreStart /\ active = {"w1"} /\ budget = 1

QuerySpec == QueryInit /\ [][QueryNext]_vars

\* two callers re-index at the same time, one call for each of them
RaceInit == StoreStart /\ active = Writers /\ budget = Cardinality(Writers)

RaceSpec == RaceInit /\ [][UpsertNext]_vars

----------------------------------------------------------------------------
(* Properties of upsert_embedding and query_similar *)

\* the hashes of s that belong to the key of the arguments a
KeyDocs(s, a) ==
    {d \in s : d.project_id = a.project_id /\ d.type = a.ref_type
               /\ d.ref_id = a.ref_id}

OtherDocs(s, a) == s \ KeyDocs(s, a)

\* the last upsert_embedding call of caller w has returned
Completed(w) == up_pc[w] = "idle" /\ up_ret[w] = "ok"

\* s holds, for the key of a, the windows cs at the ordinals 0..n-1 and
\* nothing else
HoldsWindows(s, a, cs) ==
    /\ Cardinality(KeyDocs(s, a)) = Len(cs)
    /\ \A i \in 1..Len(cs) :
         \E d \in KeyDocs(s, a) :
           /\ d.id = <<a.project_id, a.ref_type, a.ref_id, i - 1>>
           /\ d.content = cs[i]

(* C21: once upsert_embedding(p, t, r, content) with non-empty content has
   returned, the chunks stored under (p, t, r) are the windows of
   chunk_text(content) at the ordinals 0..n-1 and nothing else, also when the
   content indexed before had more windows, and the chunks of every other key
   are what they were. *)
C21_ReindexReplacesTheKey ==
    \A w \in Writers :
      (Completed(w) /\ up_args[w].content # <<>>) =>
        /\ HoldsWindows(docs, up_args[w], chunk_text(up_args[w].content))
        /\ OtherDocs(docs, up_args[w]) = OtherDocs(up_before[w], up_args[w])

C21_Witness ==
    /\ Completed("w1")
    /\ up_args["w1"].content = <<"x">>
    /\ Cardinality(KeyDocs(up_before["w1"], up_args["w1"])) = 2
    /\ Cardinality(KeyDocs(docs, up_args["w1"])) = 1
    /\ OtherDocs(docs, up_args["w1"]) # {}

\* the entries of a query_similar result that belong to the key of a
EntriesOfKey(res, a) ==
    {i \in 1..Len(res) : /\ res[i].project_id = a.project_id
                         /\ res[i].type = a.ref_type
                         /\ res[i].ref_id = a.ref_id}

(* C22: upsert_embedding(p, t, r, "") deletes every stored chunk of the key
   (p, t, r) without calling the embedding provider and leaves the chunks of
   all other keys as they were; a query_similar for project p made after it
   returns no chunk of that key. *)
C22_EmptyContentDeletesTheKey ==
    \A w \in Writers :
      (Completed(w) /\ up_args[w].content = <<>>) =>
        /\ KeyDocs(docs, up_args[w]) = {}
        /\ ~up_embedded[w]
        /\ OtherDocs(docs, up_args[w]) = OtherDocs(up_before[w], up_args[w])
        /\ (qs_pc = "done" /\ w \in qs_after
              /\ qs_args.project_id = up_args[w].project_id)
             => EntriesOfKey(qs_ret, up_args[w]) = {}

C22_Witness ==
    /\ Completed("w1") /\ up_args["w1"].content = <<>>
    /\ Cardinality(KeyDocs(up_before["w1"], up_args["w1"])) = 2
    /\ qs_pc = "done" /\ "w1" \in qs_after
    /\ qs_args.project_id = up_args["w1"].project_id
    /\ Len(qs_ret) = 2

(* C23: the delete-then-write of upsert_embedding appears atomic to readers:
   a query_similar whose search runs while key K is re-indexed finds, for K,
   either all the chunks K held before or all the chunks of the new content,
   never none or some of them. *)
C23_ReindexLooksAtomic ==
    qs_pc = "done" =>
      \A m \in qs_mid :
        m.args.content # <<>> =>
          KeyDocs(qs_view, m.args)
            \in {KeyDocs(m.before, m.args), Indexed(m.args, m.args.content)}

\* the store that one uninterrupted upsert_embedding(a) makes of the store s
OneRun(s, a) == OtherDocs(s, a) \cup Indexed(a, a.content)

(* C24: re-indexing is idempotent: a second upsert_embedding with the same
   arguments right after the first leaves the store as the first left it, and
   a run repeated after a run that was cut off between its delete and its
   write leaves the store as one uninterrupted run would have. *)
C24_ReindexIsIdempotent ==
    \A w \in Writers :
      (Completed(w) /\ up_prev[w].ret # "none" /\ up_prev[w].args = up_args[w]) =>
        /\ up_prev[w].ret = "ok" => docs = up_before[w]
        /\ up_prev[w].ret = "write_error"
             => docs = OneRun(up_prev[w].before, up_args[w])

C24_Witness ==
    /\ Completed("w1")
    /\ up_prev["w1"].ret = "write_error" /\ up_prev["w1"].args = up_args["w1"]
    /\ up_args["w1"].content = <<"x">>
    /\ Cardinality(KeyDocs(up_prev["w1"].before, up_args["w1"])) = 2
    /\ OtherDocs(docs, up_args["w1"]) # {}

(* C25: query_similar(p, query, top_k) returns at most top_k entries, each
   made of a stored chunk whose project_id is p, in the order of the engine's
   reply; an empty query returns the empty list without calling the
   embedding provider or the store. *)
C25_QueryStaysInTheProject ==
    qs_pc = "done" =>
      /\ Len(qs_ret) <= qs_args.top_k
      /\ Len(qs_ret) = Len(qs_reply)
      /\ \A i \in 1..Len(qs_ret) :
           /\ qs_ret[i].project_id = qs_args.project_id
           /\ qs_reply[i] \in qs_view
           /\ qs_ret[i].content = qs_reply[i].content
           /\ qs_ret[i].type = qs_reply[i].type
           /\ qs_ret[i].ref_id = qs_reply[i].ref_id
           /\ qs_reply[i].project_id = qs_args.project_id
      /\ qs_args.query = <<>> =>
           /\ qs_ret = <<>>
           /\ ~qs_embedded
           /\ qs_reply = <<>> /\ qs_view = {}

C25_Witness ==
    /\ qs_pc = "done" /\ qs_args.query # <<>> /\ qs_args.top_k = 1
    /\ Len(qs_ret) = 1
    /\ Cardinality({d \in qs_view : d.project_id = qs_args.project_id}) >= 2
    /\ \E d \in qs_view : d.project_id # qs_args.project_id

(* C28: when embed_texts or the creation of the index fails in
   upsert_embedding with non-empty content, the caller gets the error and the
   store is what it was before the call: nothing is deleted before the
   embeddings and the index were obtained. *)
C28_FailureBeforeDeleteKeepsChunks ==
    \A w \in Writers :
      /\ (up_pc[w] = "idle" /\ up_ret[w] \in {"embed_error", "index_error"}) =>
           /\ up_args[w].content # <<>>
           /\ docs = up_before[w]
      /\ up_pc[w] \in {"embed", "ensure", "create"} => docs = up_before[w]

C28_Witness ==
    /\ up_pc["w1"] = "idle" /\ up_ret["w1"] = "index_error"
    /\ up_args["w1"].content = <<"x">>
    /\ Cardinality(KeyDocs(docs, up_args["w1"])) = 2

(* C29: when two upsert_embedding calls for the same key with different
   contents run at the same time, the chunks the key holds once both have
   returned are the windows of exactly one of the two contents, never a
   mixture of both. *)
C29_RaceLeavesOneContent ==
    \A v, w \in Writers :
      (/\ v # w /\ Completed(v) /\ Completed(w)
       /\ KeyDocs(docs, up_args[v]) = KeyDocs(docs, up_args[w])
       /\ up_args[v].project_id = up_args[w].project_id
       /\ up_args[v].ref_type = up_args[w].ref_type
       /\ up_args[v].ref_id = up_args[w].ref_id
       /\ up_args[v].content # up_args[w].content) =>
         KeyDocs(docs, up_args[v])
           \in {Indexed(up_args[v], up_args[v].content),
                Indexed(up_args[w], up_args[w].content)}

----------------------------------------------------------------------------
(* AutoWriterService over FileStorage (services.py, storage.py, models.py) *)

\* AutoWriterService calls started in one run
MaxOps == 4

\* models.Project(name=..., author=..., description=...) (models.py 60-71)
NewProject(name, author, description, id, now) ==
    [name |-> name, author |-> author, description |-> description,
     created_at |-> now, id |-> id, characters |-> <<>>, settings |-> <<>>,
     relationships |-> <<>>, chapters |-> <<>>, foreshadows |-> <<>>]

\* _dump_dataclass and json.dumps (storage.py lines 17-20, 41-42): the dict
\* written to the file
Dump(p) ==
    [name |-> p.name, author |-> p.author, description |-> p.description,
     created_at |-> p.created_at, id |-> p.id, characters |-> p.characters,
     settings |-> p.settings, relationships |-> p.relationships,
     chapters |-> p.chapters, foreshadows |-> p.foreshadows]

\* variant: the foreshadows of the file are not read back
project_from_dict_NoForeshadows(data) ==
    [name |-> data.name, author |-> data.author,
     description |-> data.description, created_at |-> data.created_at,
     id |-> data.id, characters |-> data.characters,
     settings |-> data.settings, relationships |-> data.relationships,
     chapters |-> data.chapters, foreshadows |-> <<>>]

\* FileStorage._project_from_dict (storage.py lines 61-80)
project_from_dict(data) ==
    [name |-> data.name, author |-> data.author,
     description |-> data.description, created_at |-> data.created_at,
     id |-> data.id, characters |-> data.characters,
     settings |-> data.settings, relationships |-> data.relationships,
     chapters |-> data.chapters, foreshadows |-> data.foreshadows]

\* FileStorage.save_project (storage.py lines 39-43)
save_project(fs, p) ==
    [i \in DOMAIN fs \cup {p.id} |-> IF i = p.id THEN Dump(p) ELSE fs[i]]

\* FileStorage.load_project (storage.py lines 45-51), for a file that exists
load_project(fs, id) == project_from_dict(fs[id])

RECURSIVE StableSort(_)
\* sorted(..., key=...) and list.sort(key=...) on <<key, item>> pairs:
\* ascending by key, items of equal key in their order
StableSort(pairs) ==
    IF pairs = <<>>
    THEN <<>>
    ELSE LET least == CHOOSE i \in 1..Len(pairs) :
                        /\ \A j \in 1..Len(pairs) : pairs[i][1] <= pairs[j][1]
                        /\ \A j \in 1..(i - 1) : pairs[j][1] # pairs[i][1]
         IN  <<pairs[least]>> \o
             StableSort(SubSeq(pairs, 1, least - 1)
                        \o SubSeq(pairs, least + 1, Len(pairs)))

\* the items of the sorted pairs
Items(pairs) == [i \in 1..Len(pairs) |-> pairs[i][2]]

RECURSIVE FilesInOrder(_, _)
\* the project files as glob("*.json") lists them
FilesInOrder(fs, ids) ==
    IF ids = {}
    THEN <<>>
    ELSE LET i == CHOOSE j \in ids : \A k \in ids : j <= k
         IN  <<project_from_dict(fs[i])>> \o FilesInOrder(fs, ids \ {i})

\* FileStorage.list_projects (storage.py lines 53-59)
list_projects(fs) ==
    LET found == FilesInOrder(fs, DOMAIN fs)
    IN  Items(StableSort([i \in 1..Len(found) |-> <<found[i].created_at, found[i]>>]))

\* project.chapters.sort(key=lambda c: c.index) (services.py line 72)
SortedByIndex(chapters_) ==
    Items(StableSort([i \in 1..Len(chapters_) |-> <<chapters_[i].index, chapters_[i]>>]))

\* services.py lines 71-72: append, then sort by index
WithChapter(p, chapter) ==
    [p EXCEPT !.chapters = SortedByIndex(Append(@, chapter))]

\* a call of AutoWriterService and its arguments
ServiceCall(op, project_id, index, chapter_id, outline, content) ==
    [op |-> op, project_id |-> project_id, index |-> index,
     chapter_id |-> chapter_id, outline |-> outline, content |-> content]

\* the calls a caller may make: the add operations on the stored projects,
\* add_character also on the id 0 that no project has, update_chapter on the
\* chapters added so far and on the id 0 that no chapter has
ServiceCalls ==
    {ServiceCall(op, i, 0, 0, NONE, NONE) :
       op \in {"add_character", "add_setting", "add_relationship", "add_foreshadow"},
       i \in DOMAIN files}
    \cup {ServiceCall("add_character", 0, 0, 0, NONE, NONE)}
    \cup {ServiceCall("add_chapter", i, n, 0, "Intro", "Once upon a time") :
            i \in DOMAIN files, n \in {1, 2}}
    \cup {ServiceCall("update_chapter", i, 0, c, u[1], u[2]) :
            i \in DOMAIN files, c \in DOMAIN written \cup {0},
            u \in {<<NONE, "Expanded content">>, <<"Intro 2", NONE>>}}

Returned(id) == [op |-> "returned", id |-> id]

Raised_(error) == [op |-> "raised", error |-> error]

\* create_project (services.py lines 22-27)
CreateProject(w, name, author, description) ==
    /\ w \in workers
    /\ sv_pc[w] = "idle"
    /\ ops_left > 0
    /\ ops_left' = ops_left - 1
    /\ LET p == NewProject(name, author, description, uuid_next, clock)
       IN  /\ files' = save_project(files, p)
           /\ created' = Append(created, p)
           /\ sv_ret' = [sv_ret EXCEPT ![w] = Returned(p.id)]
    /\ sv_op' = [sv_op EXCEPT ![w] = ServiceCall("create_project", 0, 0, 0, NONE, NONE)]
    /\ uuid_next' = uuid_next + 1
    /\ clock' = clock + 1
    /\ UNCHANGED <<workers, sv_pc, project, added, written>>
    /\ UNCHANGED <<routerVars, selectVars, chunkVars, storeVars, queryVars>>

\* an add operation or update_chapter is called
Call(w, o) ==
    /\ w \in workers
    /\ sv_pc[w] = "idle"
    /\ ops_left > 0
    /\ ops_left' = ops_left - 1
    /\ sv_op' = [sv_op EXCEPT ![w] = o]
    /\ sv_pc' = [sv_pc EXCEPT ![w] = "load"]
    /\ project' = [project EXCEPT ![w] = NoOp]
    /\ sv_ret' = [sv_ret EXCEPT ![w] = [op |-> "running"]]
    /\ UNCHANGED <<files, uuid_next, clock, workers, created, added, written>>
    /\ UNCHANGED <<routerVars, selectVars, chunkVars, storeVars, queryVars>>

\* get_project (services.py lines 34-36, storage.py lines 45-51) as the
\* first line of the operation
GetProject(w) ==
    /\ sv_pc[w] = "load"
    /\ IF sv_op[w].project_id \in DOMAIN files
       THEN /\ project' = [project EXCEPT ![w] = load_project(files, sv_op[w].project_id)]
            /\ sv_pc' = [sv_pc EXCEPT ![w] = sv_op[w].op]
            /\ sv_ret' = sv_ret
       ELSE /\ project' = project
            /\ sv_pc' = [sv_pc EXCEPT ![w] = "idle"]
            /\ sv_ret' = [sv_ret EXCEPT ![w] = Raised_("FileNotFoundError")]
    /\ UNCHANGED <<files, uuid_next, clock, workers, ops_left, sv_op, created,
                   added, written>>
    /\ UNCHANGED <<routerVars, selectVars, chunkVars, storeVars, queryVars>>

\* the changed project p2 is saved and the new entity of `list` is returned
SaveAdded(w, p2, list) ==
    /\ files' = save_project(files, p2)
    /\ project' = [project EXCEPT ![w] = p2]
    /\ added' = added \cup {[project_id |-> p2.id, list |-> list, id |-> uuid_next]}
    /\ uuid_next' = uuid_next + 1
    /\ sv_ret' = [sv_ret EXCEPT ![w] = Returned(uuid_next)]
    /\ sv_pc' = [sv_pc EXCEPT ![w] = "idle"]
    /\ UNCHANGED <<clock, workers, ops_left, sv_op, created>>
    /\ UNCHANGED <<routerVars, selectVars, chunkVars, storeVars, queryVars>>

\* add_character (services.py lines 40-44)
AddCharacter(w) ==
    /\ sv_pc[w] = "add_character"
    /\ LET character == [name |-> "Hero", bio |-> "Protagonist", tags |-> <<>>,
                         id |-> uuid_next]
       IN  SaveAdded(w, [project[w] EXCEPT !.characters = Append(@, character)],
                     "characters")
    /\ UNCHANGED written

\* add_setting (services.py lines 48-52)
AddSetting(w) ==
    /\ sv_pc[w] = "add_setting"
    /\ LET setting == [type |-> "place", name |-> "Town", description |-> "",
                       id |-> uuid_next]
       IN  SaveAdded(w, [project[w] EXCEPT !.settings = Append(@, setting)],
                     "settings")
    /\ UNCHANGED written

\* add_relationship (services.py lines 56-66)
AddRelationship(w) ==
    /\ sv_pc[w] = "add_relationship"
    /\ LET relationship == [source_id |-> 0, target_id |-> 0,
                            relation_type |-> "ally", id |-> uuid_next]
       IN  SaveAdded(w, [project[w] EXCEPT !.relationships = Append(@, relationship)],
                     "relationships")
    /\ UNCHANGED written

\* add_chapter (services.py lines 70-75)
AddChapter(w) ==
    /\ sv_pc[w] = "add_chapter"
    /\ LET chapter == [index |-> sv_op[w].index, title |-> "Opening",
                       outline |-> sv_op[w].outline, content |-> sv_op[w].content,
                       id |-> uuid_next]
       IN  /\ SaveAdded(w, WithChapter(project[w], chapter), "chapters")
           /\ written' = [i \in DOMAIN written \cup {uuid_next} |->
                            IF i = uuid_next THEN chapter.content ELSE written[i]]

\* add_foreshadow (services.py lines 92-101)
AddForeshadow(w) ==
    /\ sv_pc[w] = "add_foreshadow"
    /\ LET foreshadow == [description |-> "Mysterious key", status |-> "hinted",
                          first_chapter_id |-> NONE, resolve_chapter_id |-> NONE,
                          id |-> uuid_next]
       IN  SaveAdded(w, [project[w] EXCEPT !.foreshadows = Append(@, foreshadow)],
                     "foreshadows")
    /\ UNCHANGED written

\* the positions of the chapters of p with the id (services.py lines 79-80)
ChaptersWithId(p, id) == {i \in 1..Len(p.chapters) : p.chapters[i].id = id}

\* services.py lines 81-84
Updated(chapter, outline, content) ==
    [chapter EXCEPT !.outline = IF outline # NONE THEN outline ELSE @,
                    !.content = IF content # NONE THEN content ELSE @]

\* update_chapter (services.py lines 79-87): the first chapter with the id is
\* changed and the project saved
UpdateChapterSave(w) ==
    /\ sv_pc[w] = "update_chapter"
    /\ ChaptersWithId(project[w], sv_op[w].chapter_id) # {}
    /\ LET o == sv_op[w]
           hits == ChaptersWithId(project[w], o.chapter_id)
           first == CHOOSE i \in hits : \A j \in hits : i <= j
           p2 == [project[w] EXCEPT !.chapters[first] =
                                      Updated(@, o.outline, o.content)]
       IN  /\ files' = save_project(files, p2)
           /\ project' = [project EXCEPT ![w] = p2]
           /\ written' = IF o.content # NONE
                         THEN [written EXCEPT ![o.chapter_id] = o.content]
                         ELSE written
           /\ sv_ret' = [sv_ret EXCEPT ![w] = Returned(o.chapter_id)]
    /\ sv_pc' = [sv_pc EXCEPT ![w] = "idle"]
    /\ UNCHANGED <<uuid_next, clock, workers, ops_left, sv_op, created, added>>
    /\ UNCHANGED <<routerVars, selectVars, chunkVars, storeVars, queryVars>>

\* update_chapter (services.py line 88): no chapter has the id
UpdateChapterMissing(w) ==
    /\ sv_pc[w] = "update_chapter"
    /\ ChaptersWithId(project[w], sv_op[w].chapter_id) = {}
    /\ sv_ret' = [sv_ret EXCEPT ![w] = Raised_("ValueError")]
    /\ sv_pc' = [sv_pc EXCEPT ![w] = "idle"]
    /\ UNCHANGED <<files, uuid_next, clock, workers, ops_left, sv_op, project,
                   created, added, written>>
    /\ UNCHANGED <<routerVars, selectVars, chunkVars, storeVars, queryVars>>

ServiceNext ==
    \/ \E w \in Workers : \E d \in {"", "A test project"} :
         CreateProject(w, "My Novel", "Author", d)
    \/ \E w \in Workers : \E o \in ServiceCalls : Call(w, o)
    \/ \E w \in Workers : GetProject(w)
    \/ \E w \in Workers : AddCharacter(w)
    \/ \E w \in Workers : AddSetting(w)
    \/ \E w \in Workers : AddRelationship(w)
    \/ \E w \in Workers : AddChapter(w)
    \/ \E w \in Workers : AddForeshadow(w)
    \/ \E w \in Workers : UpdateChapterSave(w)
    \/ \E w \in Workers : UpdateChapterMissing(w)

\* a new storage root, one caller
ServiceInit ==
    /\ RouterIdle /\ SelectOff /\ ChunkOff /\ StoreOff
    /\ files = <<>> /\ uuid_next = 1 /\ clock = 1
    /\ created = <<>> /\ written = <<>>
    /\ ServiceIdle
    /\ workers = {"s1"}
    /\ ops_left = MaxOps

ServiceSpec == ServiceInit /\ [][ServiceNext]_vars

\* the project that create_project("My Novel", "Author") has stored
FirstProject == NewProject("My Novel", "Author", "", 1, 1)

\* a storage root that holds one project; two callers, one call each
ServiceRaceInit ==
    /\ RouterIdle /\ SelectOff /\ ChunkOff /\ StoreOff
    /\ files = save_project(<<>>, FirstProject)
    /\ uuid_next = FirstProject.id + 1 /\ clock = FirstProject.created_at + 1
    /\ created = <<FirstProject>> /\ written = <<>>
    /\ ServiceIdle
    /\ workers = Workers
    /\ ops_left = Cardinality(Workers)

ServiceRaceSpec == ServiceRaceInit /\ [][ServiceNext]_vars

----------------------------------------------------------------------------
(* Properties of AutoWriterService *)

\* no AutoWriterService call is under way
AllReturned == \A w \in Workers : sv_pc[w] = "idle"

EntityLists == {"characters", "settings", "relationships", "chapters", "foreshadows"}

\* the positions of the entity e in its list of the project p
PlacesOf(p, e) == {i \in 1..Len(p[e.list]) : p[e.list][i].id = e.id}

\* every entity that an add operation returned is in the stored project, once
NoAddLost ==
    \A e \in added :
      /\ e.project_id \in DOMAIN files
      /\ Cardinality(PlacesOf(load_project(files, e.project_id), e)) = 1

(* C26: after any sequence of AutoWriterService calls made one after another,
   get_project(id) returns the project with the fields create_project gave it,
   with every added entity and nothing else, each chapter holding the content
   last written to it, and list_projects returns one project for each
   create_project call. *)
C26_StoredProjectFollowsTheCalls ==
    (AllReturned /\ workers = {"s1"}) =>
      /\ \A k \in 1..Len(created) :
           /\ created[k].id \in DOMAIN files
           /\ LET p == load_project(files, created[k].id)
              IN  /\ p.name = created[k].name
                  /\ p.author = created[k].author
                  /\ p.description = created[k].description
                  /\ p.created_at = created[k].created_at
                  /\ p.id = created[k].id
                  /\ \A l \in EntityLists :
                       Len(p[l]) = Cardinality({e \in added : e.project_id = p.id
                                                               /\ e.list = l})
                  /\ \A i \in 1..Len(p.chapters) :
                       p.chapters[i].content = written[p.chapters[i].id]
      /\ NoAddLost
      /\ Len(list_projects(files)) = Len(created)
      /\ \A k \in 1..Len(created) :
           Cardinality({i \in 1..Len(list_projects(files)) :
                          list_projects(files)[i].id = created[k].id}) = 1

C26_Witness ==
    /\ AllReturned /\ workers = {"s1"} /\ Len(created) = 1
    /\ LET p == load_project(files, created[1].id)
       IN  /\ Len(p.chapters) = 1
           /\ p.chapters[1].content = "Expanded content"
           /\ Len(p.foreshadows) = 1

(* C30: when two add operations on the same project interleave, each doing
   load, append, save, the stored project holds both added entities once
   both have returned: no add is lost. *)
C30_NoAddLostInARace == AllReturned => NoAddLost

====
